---- MODULE Spec2Model ----
(***************************************************************************)
(* Summer Olympics medal dashboards: the two Streamlit scripts             *)
(* (src/app.py, called "app" below, and src/unnamed/part_000, called       *)
(* "part") as a state machine.  The state is the raw table as read from    *)
(* the CSV file, the cached canonical table returned by load_data, and,    *)
(* per browser session, the position of the script run, the widget values  *)
(* of the run, the filtered copy dff and the derived views.                *)
(*                                                                         *)
(* A string is a tuple of one-character strings, so that strip, lower and  *)
(* the lexicographic order of group keys are computed, not assumed.  A     *)
(* cell of a table is a record [k, n, s]: k = "num" (the number n),        *)
(* k = "str" (the string s) or k = "nan" (a missing value).                *)
(* Column headers are taken as already stripped; the raw-data expander     *)
(* (a display of dff) is not modelled.                                     *)
(***************************************************************************)
EXTENDS Integers, Sequences, FiniteSets, TLC

VARIABLES raw, variant, loaded, heap, pc, params, dffRef, view

vars == <<raw, variant, loaded, heap, pc, params, dffRef, view>>

\* ------------------------------------------------------------- bounds

\* at most this many of the extra rows are added to the base rows
MaxExtra == 1

\* ------------------------------------------------------------ strings

UpperCase == <<"A","B","C","D","E","F","G","H","I","J","K","L","M",
               "N","O","P","Q","R","S","T","U","V","W","X","Y","Z">>
LowerCase == <<"a","b","c","d","e","f","g","h","i","j","k","l","m",
               "n","o","p","q","r","s","t","u","v","w","x","y","z">>
Digits == <<"0","1","2","3","4","5","6","7","8","9">>

Range(f) == {f[i] : i \in DOMAIN f}
IndexOf(seq, c) == CHOOSE i \in DOMAIN seq : seq[i] = c

Alphabet == {" ", "/"} \cup Range(UpperCase) \cup Range(LowerCase) \cup Range(Digits)

\* the code point of a character
Code == [c \in Alphabet |->
           IF c = " " THEN 32
           ELSE IF c = "/" THEN 47
           ELSE IF c \in Range(Digits) THEN 47 + IndexOf(Digits, c)
           ELSE IF c \in Range(UpperCase) THEN 64 + IndexOf(UpperCase, c)
           ELSE 96 + IndexOf(LowerCase, c)]

\* str.lower, one character
LowerChar == [c \in Alphabet |->
           IF c \in Range(UpperCase) THEN LowerCase[IndexOf(UpperCase, c)] ELSE c]

Lower(s) == [i \in DOMAIN s |-> LowerChar[s[i]]]

RECURSIVE LStrip(_)
LStrip(s) == IF s # <<>> /\ Head(s) = " " THEN LStrip(Tail(s)) ELSE s

RECURSIVE RStrip(_)
RStrip(s) == IF s # <<>> /\ s[Len(s)] = " " THEN RStrip(SubSeq(s, 1, Len(s) - 1)) ELSE s

\* str.strip
Strip(s) == RStrip(LStrip(s))

\* s < t in Python's string order (lexicographic by code point)
RECURSIVE StrLess(_, _)
StrLess(s, t) ==
    IF t = <<>> THEN FALSE
    ELSE IF s = <<>> THEN TRUE
    ELSE IF Head(s) # Head(t) THEN Code[Head(s)] < Code[Head(t)]
    ELSE StrLess(Tail(s), Tail(t))

\* str(n) for an integer n >= 0
RECURSIVE IntToStr(_)
IntToStr(n) == IF n < 10 THEN <<Digits[n + 1]>>
               ELSE Append(IntToStr(n \div 10), Digits[(n % 10) + 1])

\* ---------------------------------------------------------------- cells

Num(n) == [k |-> "num", n |-> n, s |-> <<>>]
Str(s) == [k |-> "str", n |-> 0, s |-> s]
NaN    == [k |-> "nan", n |-> 0, s |-> <<>>]

IsNum(c) == c.k = "num"
IsNaN(c) == c.k = "nan"

Min(a, b) == IF a <= b THEN a ELSE b

\* the sequence f with every item computed, once
AsList(f) ==
    LET G[j \in 0..Len(f)] == IF j = 0 THEN <<>> ELSE Append(G[j - 1], f[j])
    IN G[Len(f)]

\* the items of seq at the indices in keep, in order
SelectRows(seq, keep) ==
    LET F[i \in 0..Len(seq)] ==
            IF i = 0 THEN <<>>
            ELSE IF i \in keep THEN Append(F[i - 1], seq[i])
            ELSE F[i - 1]
    IN F[Len(seq)]

\* ------------------------------------------------------------ raw input

UnitedStates  == <<"U","n","i","t","e","d"," ","S","t","a","t","e","s">>
China         == <<"C","h","i","n","a">>
UnitedKingdom == <<"U","n","i","t","e","d"," ","K","i","n","g","d","o","m">>
Germany       == <<"G","e","r","m","a","n","y">>
Australia     == <<"A","u","s","t","r","a","l","i","a">>
Japan         == <<"J","a","p","a","n">>

NumericCols == <<"Year", "Golds", "Silvers", "Bronzes", "Medals", "Rank">>
CsvColumns  == {"Country", "Year", "Rank", "Golds", "Silvers", "Bronzes", "Medals"}

Row(c, y, r, g, s, b, m) ==
    [Country |-> c, Year |-> y, Rank |-> r, Golds |-> g, Silvers |-> s,
     Bronzes |-> b, Medals |-> m]

CleanRow(c, y, r, g, s, b) ==
    Row(Str(c), Num(y), Num(r), Num(g), Num(s), Num(b), Num(g + s + b))

\* rows every raw table holds: well-formed records of six countries
BaseRows == <<
    CleanRow(UnitedStates,  2016, 1, 46, 37, 38),
    CleanRow(UnitedStates,  2008, 2, 36, 39, 37),
    CleanRow(China,         2016, 3, 26, 18, 26),
    CleanRow(China,         2008, 1, 48, 22, 30),
    CleanRow(UnitedKingdom, 2016, 2, 27, 23, 17),
    CleanRow(Germany,       2016, 5, 17, 10, 15),
    CleanRow(Australia,     2016, 10, 8, 11, 10),
    CleanRow(Australia,     2008, 6, 14, 15, 17),
    CleanRow(Japan,         2016, 6, 12,  8, 21),
    CleanRow(Japan,         2008, 8,  3,  5,  7) >>

\* rows a raw table may hold in addition: a missing Country, a placeholder
\* Country, a non-numeric Year, a missing Medals and Golds, and a Country
\* with surrounding blanks in a third year
ExtraRows == <<
    Row(NaN, Num(2016), Num(8), Num(1), Num(1), Num(1), Num(3)),
    Row(Str(<<" ","N","/","A"," ">>), Num(2016), Num(9), Num(2), Num(0), Num(2), Num(4)),
    Row(Str(Germany), Str(<<"x">>), Num(5), Num(11), Num(19), Num(14), Num(44)),
    Row(Str(UnitedKingdom), Num(2008), Num(4), NaN, Num(13), Num(15), NaN),
    Row(Str(<<" ">> \o Japan \o <<" ">>), Num(2012), Num(11), Num(7), Num(14), Num(17), Num(38)) >>

\* pd.read_csv: the rows get the index 0, 1, 2, ...
ReadCsv(rows) == [i \in DOMAIN rows |-> [idx |-> i - 1, cell |-> rows[i]]]

RawTables(maxExtra) ==
    { ReadCsv(BaseRows \o SelectRows(ExtraRows, S)) :
        S \in {T \in SUBSET (DOMAIN ExtraRows) : Cardinality(T) <= maxExtra} }

\* ------------------------------------------------------------ load_data

Frame(cols, rows) == [columns |-> cols, rows |-> rows]
EmptyFrame == Frame(CsvColumns, <<>>)

\* pd.to_numeric(errors="coerce"), one cell: a non-numeric value becomes missing
ToNumericFill(c) == IF IsNum(c) THEN c ELSE Num(0)
ToNumeric(c) == IF IsNum(c) THEN c ELSE NaN

\* the loop over the numeric columns
CoerceNumeric(rows) ==
    [i \in DOMAIN rows |->
        [rows[i] EXCEPT !.cell =
            [col \in DOMAIN rows[i].cell |->
                IF col \in Range(NumericCols) THEN ToNumeric(rows[i].cell[col])
                ELSE rows[i].cell[col]]]]

\* df.dropna(subset=cols)
DropNa(rows, cols) ==
    SelectRows(rows, {i \in DOMAIN rows : \A col \in cols : ~IsNaN(rows[i].cell[col])})

\* astype(str), one cell
AsStr(c) == IF IsNum(c) THEN IntToStr(c.n) ELSE c.s

\* df["Country"].astype(str).str.strip()
StripCountry(rows) ==
    [i \in DOMAIN rows |-> [rows[i] EXCEPT !.cell.Country = Str(Strip(AsStr(@)))]]

Placeholders == { <<"n","a","n">>, <<"n","o","n","e">>, <<>>, <<"n","/","a">> }

\* df[~df["Country"].str.lower().isin(["nan","none","","n/a"])]
DropPlaceholders(rows) ==
    SelectRows(rows, {i \in DOMAIN rows : Lower(rows[i].cell.Country.s) \notin Placeholders})

\* load_data of part: the cleaned table
LoadDataPart(rows) ==
    [ok |-> TRUE,
     frame |-> Frame(CsvColumns,
        DropNa(DropPlaceholders(StripCountry(DropNa(CoerceNumeric(rows), {"Country"}))),
               {"Year", "Medals"}))]

\* load_data of app: astype(int) raises on a missing or non-numeric Year;
\* nothing else is cleaned
LoadDataApp(rows) ==
    IF \E i \in DOMAIN rows : ~IsNum(rows[i].cell.Year)
    THEN [ok |-> FALSE, frame |-> EmptyFrame]
    ELSE [ok |-> TRUE, frame |-> Frame(CsvColumns, rows)]

load_data(v, rows) == IF v = "part" THEN LoadDataPart(rows) ELSE LoadDataApp(rows)

\* ------------------------------------------------------------- sessions

Variants == {"app", "part"}
Sessions == {"s1", "s2"}
MedalTypes == {"Golds", "Silvers", "Bronzes", "Medals"}

\* the canonical table: the module-level df of the script, taken as the one
\* object st.cache_data keeps for all sessions
df == heap["df"]
\* the frame the name dff of session s is bound to
dff(s) == heap[dffRef[s]]
\* ---------------------------------------------------------- aggregation

\* the order ord of indices with index i put before the first index whose
\* key is larger, so that items with equal keys keep their order
Insert(ord, i, key) ==
    LET later == {j \in DOMAIN ord : key[i] < key[ord[j]]}
        pos == IF later = {} THEN Len(ord) + 1
               ELSE CHOOSE j \in later : \A k \in later : j <= k
    IN SubSeq(ord, 1, pos - 1) \o <<i>> \o SubSeq(ord, pos, Len(ord))

\* a stable sort of seq by ascending key, key[i] being the key of seq[i]
\* (pandas leaves the order of equal keys to the sort; nothing below reads it)
StableSort(seq, key) ==
    LET keys == AsList(key)
        F[i \in 0..Len(seq)] ==
            IF i = 0 THEN <<>> ELSE Insert(F[i - 1], i, keys)
        ord == F[Len(seq)]
    IN AsList([j \in DOMAIN seq |-> seq[ord[j]]])

\* sorted() of strings: the key of a string is the number of strings below it
SortStrings(seq) ==
    StableSort(seq, [i \in DOMAIN seq |->
                        Cardinality({j \in DOMAIN seq : StrLess(seq[j], seq[i])})])

\* the distinct items of seq, in the order of their first occurrence
Distinct(seq) ==
    LET F[i \in 0..Len(seq)] ==
            IF i = 0 THEN <<>>
            ELSE LET before == F[i - 1]
                 IN IF seq[i] \in Range(before) THEN before ELSE Append(before, seq[i])
    IN F[Len(seq)]

\* Series.sum() of a column: missing values are skipped
SumCol(rows, col) ==
    LET F[i \in 0..Len(rows)] ==
            IF i = 0 THEN 0
            ELSE F[i - 1] + (IF IsNum(rows[i].cell[col]) THEN rows[i].cell[col].n ELSE 0)
    IN F[Len(rows)]

HasCountry(r) == r.cell.Country.k = "str"

\* sorted(df["Year"].unique())
YearsOfSpan(rows) ==
    IF rows = <<>> THEN <<>>
    ELSE LET ys == {rows[i].cell.Year.n : i \in DOMAIN rows}
             lo == CHOOSE y \in ys : \A z \in ys : y <= z
             hi == CHOOSE y \in ys : \A z \in ys : z <= y
         IN [i \in 1..(hi - lo + 1) |-> lo + i - 1]
YearsOf(rows) ==
    LET years == Distinct([i \in DOMAIN rows |-> rows[i].cell.Year.n])
    IN StableSort(years, years)

\* the group keys of groupby("Country"): sorted, missing keys dropped
CountryKeys(rows) ==
    LET named == SelectRows(rows, {i \in DOMAIN rows : HasCountry(rows[i])})
    IN SortStrings(Distinct([i \in DOMAIN named |-> named[i].cell.Country.s]))

RowsOfCountry(rows, c) ==
    SelectRows(rows, {i \in DOMAIN rows : HasCountry(rows[i]) /\ rows[i].cell.Country.s = c})

\* df[df["Country"].isin(names)]
IsIn(rows, names) ==
    SelectRows(rows, {i \in DOMAIN rows : HasCountry(rows[i]) /\ rows[i].cell.Country.s \in names})

\* groupby("Country")[col].sum(): a Series indexed by Country
GroupSum(rows, col) ==
    LET keys == CountryKeys(rows)
    IN AsList([i \in DOMAIN keys |->
            [Country |-> keys[i], val |-> SumCol(RowsOfCountry(rows, keys[i]), col)]])

\* Series.nlargest(n): the n largest, descending, ties in their order (keep="first")
NSmallest(series, n) ==
    IF n <= 0 THEN <<>>
    ELSE SubSeq(StableSort(series, [i \in DOMAIN series |-> series[i].val]),
                1, Min(n, Len(series)))
NLargest(series, n) ==
    IF n <= 0 THEN <<>>
    ELSE SubSeq(StableSort(series, [i \in DOMAIN series |-> -series[i].val]),
                1, Min(n, Len(series)))

\* sort_values(col, ascending=True)
SortValuesAsc(series) == StableSort(series, [i \in DOMAIN series |-> series[i].val])

Index(series) == {series[i].Country : i \in DOMAIN series}

\* dff = df[(df["Year"] >= lo) & (df["Year"] <= hi)]
FilterByYearStrict(rows, lo, hi) ==
    SelectRows(rows, {i \in DOMAIN rows : rows[i].cell.Year.n >= lo /\ rows[i].cell.Year.n < hi})
FilterByYear(rows, lo, hi) ==
    SelectRows(rows, {i \in DOMAIN rows : rows[i].cell.Year.n >= lo /\ rows[i].cell.Year.n <= hi})

\* chart 1: bar_df (part), top_df (app)
BarDf(rows, medal_type, top_n) == SortValuesAsc(NLargest(GroupSum(rows, medal_type), top_n))

\* chart 2: comp_df
CompDfByGolds(rows, top_n) ==
    LET top_names == Index(NLargest(GroupSum(rows, "Golds"), top_n))
        sub == IsIn(rows, top_names)
        keys == CountryKeys(sub)
        sums == AsList([i \in DOMAIN keys |->
                    [Country |-> keys[i],
                     Golds   |-> SumCol(RowsOfCountry(sub, keys[i]), "Golds"),
                     Silvers |-> SumCol(RowsOfCountry(sub, keys[i]), "Silvers"),
                     Bronzes |-> SumCol(RowsOfCountry(sub, keys[i]), "Bronzes")]])
    IN StableSort(sums, [i \in DOMAIN sums |-> -sums[i].Golds])
CompDf(rows, top_n) ==
    LET top_names == Index(NLargest(GroupSum(rows, "Medals"), top_n))
        sub == IsIn(rows, top_names)
        keys == CountryKeys(sub)
        sums == AsList([i \in DOMAIN keys |->
                    [Country |-> keys[i],
                     Golds   |-> SumCol(RowsOfCountry(sub, keys[i]), "Golds"),
                     Silvers |-> SumCol(RowsOfCountry(sub, keys[i]), "Silvers"),
                     Bronzes |-> SumCol(RowsOfCountry(sub, keys[i]), "Bronzes")]])
    IN StableSort(sums, [i \in DOMAIN sums |-> -sums[i].Golds])

\* chart 3: trend_df, built only when selected_countries is not empty;
\* otherwise st.info shows the placeholder
TrendRows(rows, selected_countries, medal_type) ==
    LET sub == IsIn(rows, selected_countries)
        years == YearsOf(sub)
        keys == CountryKeys(sub)
    IN { [Year |-> y, Country |-> c,
          val |-> SumCol(SelectRows(sub, {i \in DOMAIN sub : /\ sub[i].cell.Country.s = c
                                                              /\ sub[i].cell.Year.n = y}),
                         medal_type)] :
           <<y, c>> \in { q \in Range(years) \X Range(keys) :
                            \E i \in DOMAIN sub : /\ sub[i].cell.Year.n = q[1]
                                                  /\ sub[i].cell.Country.s = q[2] } }

TrendViewAllWhenEmpty(rows, selected_countries, medal_type) ==
    [chart |-> TRUE, info |-> FALSE,
     rows |-> TrendRows(rows, IF selected_countries = {} THEN Range(CountryKeys(rows))
                              ELSE selected_countries, medal_type)]
TrendView(rows, selected_countries, medal_type) ==
    IF selected_countries # {}
    THEN [chart |-> TRUE, info |-> FALSE,
          rows |-> TrendRows(rows, selected_countries, medal_type)]
    ELSE [chart |-> FALSE, info |-> TRUE, rows |-> {}]

\* chart 4: scatter_df (app), s_df (part, which drops the countries without Bronzes)
ScatterDf(v, rows) ==
    LET keys == CountryKeys(rows)
        sums == AsList([i \in DOMAIN keys |->
                    [Country |-> keys[i],
                     Golds   |-> SumCol(RowsOfCountry(rows, keys[i]), "Golds"),
                     Silvers |-> SumCol(RowsOfCountry(rows, keys[i]), "Silvers"),
                     Bronzes |-> SumCol(RowsOfCountry(rows, keys[i]), "Bronzes"),
                     Medals  |-> SumCol(RowsOfCountry(rows, keys[i]), "Medals")]])
    IN IF v = "part" THEN SelectRows(sums, {i \in DOMAIN sums : sums[i].Bronzes > 0})
       ELSE sums
\* ------------------------------------------------- heatmap, pie, conversion

\* the number of countries the heatmap keeps, the pie keeps, and the least
\* total Medals of a country in the conversion chart
HeatTop == 20
PieTop == 10
MinMedals == 20

\* (Year // 10 * 10).astype(str) + "s"
DecadeLabelRounded(y) == IntToStr(((y + 5) \div 10) * 10) \o <<"s">>
DecadeLabel(y) == IntToStr((y \div 10) * 10) \o <<"s">>

\* dff["Decade"] = ...: the frame with the column added
WithDecade(frame) ==
    Frame(frame.columns \cup {"Decade"},
          AsList([i \in DOMAIN frame.rows |->
              [frame.rows[i] EXCEPT !.cell =
                  ("Decade" :> Str(DecadeLabel(frame.rows[i].cell.Year.n))) @@ @]]))

\* heat_df: groupby(["Country", "Decade"])["Medals"].sum().unstack(fill_value=0)
\* over the countries of top20; part then reindexes by total Medals descending
HeatDf(v, rows) ==
    LET top20 == Index(NLargest(GroupSum(rows, "Medals"), HeatTop))
        sub == IsIn(rows, top20)
        keys == CountryKeys(sub)
        decades == SortStrings(Distinct([i \in DOMAIN sub |-> sub[i].cell.Decade.s]))
        totals == GroupSum(sub, "Medals")
        row_order == StableSort(totals, [i \in DOMAIN totals |-> -totals[i].val])
    IN [index |-> IF v = "part" THEN [i \in DOMAIN row_order |-> row_order[i].Country]
                  ELSE keys,
        columns |-> decades,
        cell |-> [q \in Range(keys) \X Range(decades) |->
                     SumCol(SelectRows(sub, {i \in DOMAIN sub :
                                                /\ sub[i].cell.Country.s = q[1]
                                                /\ sub[i].cell.Decade.s = q[2]}),
                            "Medals")]]

\* chart 6: pie_df
PieDf(rows, medal_type) == NLargest(GroupSum(rows, medal_type), PieTop)

\* (golds / medals * 100).round(1), in tenths of a percent; a tie goes to the
\* even tenth
GoldPctFloor(golds, medals) == (1000 * golds) \div medals
GoldPct(golds, medals) ==
    LET q == (1000 * golds) \div medals
        r == (1000 * golds) % medals
    IN IF 2 * r < medals THEN q
       ELSE IF 2 * r > medals THEN q + 1
       ELSE IF q % 2 = 0 THEN q ELSE q + 1

\* chart 7: conv_df; val is the column "Gold %" in tenths
ConvDf(rows, top_n) ==
    LET keys == CountryKeys(rows)
        sums == AsList([i \in DOMAIN keys |->
                    [Country |-> keys[i],
                     Golds   |-> SumCol(RowsOfCountry(rows, keys[i]), "Golds"),
                     Medals  |-> SumCol(RowsOfCountry(rows, keys[i]), "Medals")]])
        big == SelectRows(sums, {i \in DOMAIN sums : sums[i].Medals >= MinMedals})
        pct == AsList([i \in DOMAIN big |->
                    [Country |-> big[i].Country, Golds |-> big[i].Golds,
                     Medals |-> big[i].Medals, val |-> GoldPct(big[i].Golds, big[i].Medals)]])
    IN SortValuesAsc(NLargest(pct, top_n))

\* the KPI cards; idxmax is the first country with the largest total and
\* raises ValueError on an empty table
Kpi(rows) ==
    LET totals == GroupSum(rows, "Medals")
    IN [games   |-> Cardinality(Range(YearsOf(rows))),
        nations |-> Len(CountryKeys(rows)),
        medals  |-> SumCol(rows, "Medals"),
        leader  |-> IF totals = <<>> THEN <<>> ELSE NLargest(totals, 1)[1].Country]
\* --------------------------------------------------------------- widgets

\* the slider "Top N Countries": 5, 10, ... up to 25 (part) or 30 (app)
TopNMin == 5
TopNStep == 5
TopNMaxPart == 25
TopNMaxApp == 30
TopNDefault == 10

TopNMax(v) == IF v = "part" THEN TopNMaxPart ELSE TopNMaxApp

TopNOptions(v) == {n \in TopNMin..TopNMax(v) : (n - TopNMin) % TopNStep = 0}

\* the values an interaction moves the slider to: its ends and its default
TopNPicks(v) == {TopNMin, TopNDefault, TopNMax(v)} \cap TopNOptions(v)

\* the default of the multiselect "Spotlight Countries"
DefaultSpotlight == {UnitedStates, China, UnitedKingdom, Germany, Australia}

\* what the sidebar raises on the table, "" when it raises nothing:
\* years[0] on an empty table; in app, sorted() over Countries with a missing
\* value among them, and a multiselect default that is not among the options
SidebarError(v, rows) ==
    IF rows = <<>> THEN "IndexError"
    ELSE IF v = "app" /\ \E i \in DOMAIN rows : ~HasCountry(rows[i]) THEN "TypeError"
    ELSE IF v = "app" /\ ~(DefaultSpotlight \subseteq Range(CountryKeys(rows)))
         THEN "StreamlitAPIException"
    ELSE ""

\* the selections of the multiselect a run is started with: none, the
\* default, or, with single, one country that is not in the default
Spotlights(rows, single) ==
    {{}, DefaultSpotlight \cap Range(CountryKeys(rows))}
        \cup (IF single THEN {{c} : c \in Range(CountryKeys(rows)) \ DefaultSpotlight}
              ELSE {})

\* ------------------------------------------------------------- the state

NoParams == [year_range |-> <<0, 0>>, top_n |-> TopNDefault,
             selected_countries |-> {}, medal_type |-> "Medals"]

NoView == [error |-> "", done |-> {},
           kpi |-> [games |-> 0, nations |-> 0, medals |-> 0, leader |-> <<>>],
           bar |-> <<>>, comp |-> <<>>,
           trend |-> [chart |-> FALSE, info |-> FALSE, rows |-> {}],
           scatter |-> <<>>,
           heat |-> [index |-> <<>>, columns |-> <<>>, cell |-> <<>>],
           pie |-> <<>>, conv |-> <<>>]

InitWith(tables) ==
    /\ raw \in tables
    /\ variant \in Variants
    /\ loaded = "no"
    /\ heap = [o \in {"df"} \cup Sessions |-> EmptyFrame]
    /\ pc = [s \in Sessions |-> "new"]
    /\ params = [s \in Sessions |-> NoParams]
    /\ dffRef = [s \in Sessions |-> s]
    /\ view = [s \in Sessions |-> NoView]

Init == InitWith(RawTables(MaxExtra))

\* df = load_data(): the first run computes the table, st.cache_data keeps it
LoadData ==
    /\ loaded = "no"
    /\ LET res == load_data(variant, raw)
       IN /\ loaded' = IF res.ok THEN "ok" ELSE "error"
          /\ heap' = [heap EXCEPT !["df"] = res.frame]
    /\ UNCHANGED <<raw, variant, pc, params, dffRef, view>>

\* the values the widgets have before the user touches them
DefaultParams(rows) ==
    [year_range |-> <<YearsOf(rows)[1], YearsOf(rows)[Len(YearsOf(rows))]>>,
     top_n |-> TopNDefault,
     selected_countries |-> DefaultSpotlight \cap Range(CountryKeys(rows)),
     medal_type |-> "Medals"]

\* the values one interaction can give the widgets: one widget is moved
Moves(p, rows, topNs, medalTypes, single) ==
    {[p EXCEPT !.year_range = <<lo, hi>>] :
        <<lo, hi>> \in {q \in Range(YearsOf(rows)) \X Range(YearsOf(rows)) : q[1] <= q[2]}}
    \cup {[p EXCEPT !.top_n = n] : n \in topNs}
    \cup {[p EXCEPT !.medal_type = mt] : mt \in medalTypes}
    \cup {[p EXCEPT !.selected_countries = sel] : sel \in Spotlights(rows, single)}

\* a script run starts in a fresh namespace (the dff of the run before is
\* gone, the page is cleared) and the sidebar widgets return their values
StartRun(s, p) ==
    /\ params' = [params EXCEPT ![s] = p]
    /\ view' = [view EXCEPT ![s] = NoView]
    /\ heap' = [heap EXCEPT ![s] = EmptyFrame]
    /\ dffRef' = [dffRef EXCEPT ![s] = s]
    /\ pc' = [pc EXCEPT ![s] = "charts"]
    /\ UNCHANGED <<raw, variant, loaded>>

\* the first run of a session: the widgets have their defaults
FirstRun(s) ==
    /\ loaded = "ok"
    /\ pc[s] = "new"
    /\ SidebarError(variant, df.rows) = ""
    /\ StartRun(s, DefaultParams(df.rows))

\* the user moves one widget and the script runs again
InteractOver(s, topNs, medalTypes, single) ==
    /\ pc[s] = "idle"
    /\ \E p \in Moves(params[s], df.rows, topNs, medalTypes, single) : StartRun(s, p)

Interact(s) == InteractOver(s, TopNPicks(variant), MedalTypes, TRUE)

\* a script run that the sidebar aborts with an exception
SidebarFails(s) ==
    /\ loaded = "ok"
    /\ pc[s] = "new"
    /\ SidebarError(variant, df.rows) # ""
    /\ view' = [view EXCEPT ![s] = [NoView EXCEPT !.error = SidebarError(variant, df.rows)]]
    /\ UNCHANGED <<raw, variant, loaded, heap, pc, params, dffRef>>

\* the object .copy() returns: a frame of the session's own
CopyTarget(s) == s

\* dff = df[mask].copy(), then the KPI cards and the chart rows 1 and 2;
\* idxmax raises ValueError on an empty dff
Charts(s) ==
    /\ pc[s] = "charts"
    /\ LET p == params[s]
           rows == FilterByYear(df.rows, p.year_range[1], p.year_range[2])
       IN /\ heap' = [heap EXCEPT ![CopyTarget(s)] = Frame(df.columns, rows)]
          /\ dffRef' = [dffRef EXCEPT ![s] = CopyTarget(s)]
          /\ IF GroupSum(rows, "Medals") = <<>>
             THEN /\ view' = [view EXCEPT ![s].error = "ValueError"]
                  /\ pc' = [pc EXCEPT ![s] = "idle"]
             ELSE /\ view' = [view EXCEPT ![s] =
                       [@ EXCEPT !.done = {"kpi", "bar", "comp", "trend", "scatter"},
                                 !.kpi = Kpi(rows),
                                 !.bar = BarDf(rows, p.medal_type, p.top_n),
                                 !.comp = CompDf(rows, p.top_n),
                                 !.trend = TrendView(rows, p.selected_countries, p.medal_type),
                                 !.scatter = ScatterDf(variant, rows)]]
                  /\ pc' = [pc EXCEPT ![s] = "heatmap"]
    /\ UNCHANGED <<raw, variant, loaded, params>>

\* the frame that dff["Decade"] = ... writes to
DecadeTargetDf(s) == "df"
DecadeTarget(s) == dffRef[s]

\* the Decade column is added to dff and heat_df is built; part goes on to
\* chart row 4, the pie and the gold conversion rate; the run ends
Heatmap(s) ==
    /\ pc[s] = "heatmap"
    /\ heap' = [heap EXCEPT ![DecadeTarget(s)] = WithDecade(@)]
    /\ LET rows == WithDecade(dff(s)).rows
       IN view' = [view EXCEPT ![s] =
                    IF variant = "part"
                    THEN [@ EXCEPT !.done = @ \cup {"heat", "pie", "conv"},
                                   !.heat = HeatDf(variant, rows),
                                   !.pie = PieDf(rows, params[s].medal_type),
                                   !.conv = ConvDf(rows, params[s].top_n)]
                    ELSE [@ EXCEPT !.done = @ \cup {"heat"},
                                   !.heat = HeatDf(variant, rows)]]
    /\ pc' = [pc EXCEPT ![s] = "idle"]
    /\ UNCHANGED <<raw, variant, loaded, params, dffRef>>

Next ==
    \/ LoadData
    \/ FirstRun("s1")
    \/ Interact("s1")
    \/ SidebarFails("s1")
    \/ Charts("s1")
    \/ Heatmap("s1")

Spec == Init /\ [][Next]_vars
\* several sessions run the script at once on the one cached table, which
\* is the clean table, the table with a missing Country or the table with
\* every extra row; their interactions leave the top-N slider and the medal
\* type at their defaults
ConcTables ==
    { ReadCsv(BaseRows), ReadCsv(BaseRows \o SelectRows(ExtraRows, {1})),
      ReadCsv(BaseRows \o ExtraRows) }

InitConc == InitWith(ConcTables)

InteractDefaults(s) == InteractOver(s, {TopNDefault}, {"Medals"}, FALSE)

NextConc ==
    \/ LoadData
    \/ \E s \in Sessions :
          \/ FirstRun(s)
          \/ InteractDefaults(s)
          \/ SidebarFails(s)
          \/ Charts(s)
          \/ Heatmap(s)

SpecConc == InitConc /\ [][NextConc]_vars

\* ------------------------------------------------------------- the claims

\* the countries of a table, the total of a column for one country
CountriesOf(rows) == {rows[i].cell.Country.s : i \in {j \in DOMAIN rows : HasCountry(rows[j])}}
TotalOf(rows, c, col) == SumCol(RowsOfCountry(rows, c), col)
Abs(x) == IF x < 0 THEN -x ELSE x

\* C1: the table load_data returns has no row whose Country, trimmed and
\* lower-cased, is "nan", "none", "" or "n/a", and no row with a missing Year
\* or Medals -- in both dashboards.
C1_LoadedTableIsClean ==
    loaded = "ok" =>
        \A i \in DOMAIN df.rows :
            /\ Lower(Strip(AsStr(df.rows[i].cell.Country))) \notin Placeholders
            /\ IsNum(df.rows[i].cell.Year)
            /\ IsNum(df.rows[i].cell.Medals)

\* C2: every row of the loaded table is a row of the raw table with its
\* Medals unchanged, no row occurs twice, and so the Medals of the loaded
\* table sum to at most the numeric Medals of the raw table.
C2_CleaningOnlyRemovesRows ==
    loaded = "ok" =>
        /\ \A i \in DOMAIN df.rows :
              \E j \in DOMAIN raw : /\ raw[j].idx = df.rows[i].idx
                                    /\ raw[j].cell.Medals = df.rows[i].cell.Medals
        /\ \A i, k \in DOMAIN df.rows : i < k => df.rows[i].idx < df.rows[k].idx
        /\ SumCol(df.rows, "Medals") <= SumCol(raw, "Medals")

C2_Witness ==
    /\ variant = "part"
    /\ loaded = "ok"
    /\ Len(df.rows) < Len(raw)
    /\ \E j \in DOMAIN raw : IsNaN(raw[j].cell.Medals)

\* a ranking of the n largest totals of column col over rows
IsTopN(T, rows, col, n) ==
    /\ Len(T) = Min(n, Cardinality(CountriesOf(rows)))
    /\ Cardinality(Index(T)) = Len(T)
    /\ \A i \in DOMAIN T : /\ T[i].Country \in CountriesOf(rows)
                           /\ T[i].val = TotalOf(rows, T[i].Country, col)
    /\ \A c \in CountriesOf(rows) \ Index(T) :
          \A i \in DOMAIN T : TotalOf(rows, c, col) <= T[i].val

\* C3: the top-N ranking has min(n, distinct countries) entries, each a
\* distinct country with its total, no country left out has a larger total
\* than one kept, and the totals do not decrease in the bar chart's order
\* (do not increase in the pie's order).
C3_TopNRanking ==
    \A s \in Sessions :
        /\ "bar" \in view[s].done =>
              /\ IsTopN(view[s].bar, dff(s).rows, params[s].medal_type, params[s].top_n)
              /\ \A i, j \in DOMAIN view[s].bar :
                    i < j => view[s].bar[i].val <= view[s].bar[j].val
        /\ "pie" \in view[s].done =>
              /\ IsTopN(view[s].pie, dff(s).rows, params[s].medal_type, PieTop)
              /\ \A i, j \in DOMAIN view[s].pie :
                    i < j => view[s].pie[i].val >= view[s].pie[j].val

C3_Witness ==
    \E s \in Sessions :
        /\ "bar" \in view[s].done
        /\ params[s].top_n < Cardinality(CountriesOf(dff(s).rows))
        /\ params[s].medal_type = "Golds"
        /\ Len(view[s].bar) = params[s].top_n

\* C4: with no spotlight country the trend view has no row, no chart is
\* built, the placeholder is shown and the run has raised nothing.
C4_EmptySpotlight ==
    \A s \in Sessions :
        ("trend" \in view[s].done /\ params[s].selected_countries = {}) =>
            /\ view[s].trend.rows = {}
            /\ ~view[s].trend.chart
            /\ view[s].trend.info
            /\ view[s].error = ""

C4_Witness ==
    \E s \in Sessions :
        /\ "trend" \in view[s].done
        /\ params[s].selected_countries = {}
        /\ dff(s).rows # <<>>
        /\ view[s].trend.info

\* the number a string of digits stands for
StrToInt(str) ==
    LET F[i \in 0..Len(str)] ==
            IF i = 0 THEN 0 ELSE 10 * F[i - 1] + (IndexOf(Digits, str[i]) - 1)
    IN F[Len(str)]

\* the first year of the decade a heatmap column is labelled with
DecadeStart(label) == StrToInt(SubSeq(label, 1, Len(label) - 1))

\* C5: the heatmap cell of country C and decade D is the sum of Medals over
\* the rows of the filtered table with Country = C and D <= Year <= D + 9,
\* which is 0 when there is no such row.
C5_HeatmapCells ==
    \A s \in Sessions :
        "heat" \in view[s].done =>
            \A c \in Range(view[s].heat.index), d \in Range(view[s].heat.columns) :
                view[s].heat.cell[<<c, d>>] =
                    SumCol(SelectRows(dff(s).rows,
                                      {i \in DOMAIN dff(s).rows :
                                          /\ HasCountry(dff(s).rows[i])
                                          /\ dff(s).rows[i].cell.Country.s = c
                                          /\ DecadeStart(d) <= dff(s).rows[i].cell.Year.n
                                          /\ dff(s).rows[i].cell.Year.n <= DecadeStart(d) + 9}),
                           "Medals")

C5_Witness ==
    \E s \in Sessions :
        /\ "heat" \in view[s].done
        /\ Len(view[s].heat.columns) > 1
        /\ \E c \in Range(view[s].heat.index), d \in Range(view[s].heat.columns) :
              /\ view[s].heat.cell[<<c, d>>] = 0
              /\ ~\E i \in DOMAIN dff(s).rows :
                    /\ HasCountry(dff(s).rows[i])
                    /\ dff(s).rows[i].cell.Country.s = c
                    /\ dff(s).rows[i].cell.Year.n \in DecadeStart(d)..(DecadeStart(d) + 9)
        /\ \E c \in Range(view[s].heat.index), d \in Range(view[s].heat.columns) :
              view[s].heat.cell[<<c, d>>] > 0
\* the rows of the scenario of C6
USA == <<"U","S","A">>
CHN == <<"C","H","N">>
ScenarioRows == ReadCsv(<<
    Row(Str(USA), Num(2016), Num(1), Num(46), Num(37), Num(38), Num(121)),
    Row(Str(USA), Num(2012), Num(1), Num(46), Num(29), Num(29), Num(104)),
    Row(Str(CHN), Num(2016), Num(2), Num(26), Num(18), Num(26), Num(70)) >>)

\* the countries of a table whose total Medals reach the threshold
Qualifying(rows) == {c \in CountriesOf(rows) : TotalOf(rows, c, "Medals") >= MinMedals}

\* C6: the conversion view holds only countries with at least 20 Medals in
\* total, min(n, number of such countries) of them, each with
\* 100 * Golds / Medals rounded to one decimal (val, in tenths, is within half
\* a tenth of it), none left out has a larger percentage than one kept; the
\* scenario gives USA 40.9, CHN 37.1 and USA as the top 1.
C6_GoldConversion ==
    /\ \A s \in Sessions :
          "conv" \in view[s].done =>
              LET T == view[s].conv
                  rows == dff(s).rows
              IN /\ Index(T) \subseteq Qualifying(rows)
                 /\ Len(T) = Min(params[s].top_n, Cardinality(Qualifying(rows)))
                 /\ Cardinality(Index(T)) = Len(T)
                 /\ \A i \in DOMAIN T :
                       2 * Abs(T[i].val * TotalOf(rows, T[i].Country, "Medals")
                               - 1000 * TotalOf(rows, T[i].Country, "Golds"))
                           <= TotalOf(rows, T[i].Country, "Medals")
                 /\ \A c \in Qualifying(rows) \ Index(T) :
                       \A i \in DOMAIN T :
                           GoldPct(TotalOf(rows, c, "Golds"), TotalOf(rows, c, "Medals"))
                               <= T[i].val
    /\ LET T == ConvDf(ScenarioRows, TopNMin)
       IN /\ {<<T[i].Country, T[i].val>> : i \in DOMAIN T} = {<<USA, 409>>, <<CHN, 371>>}
          /\ T[Len(T)].Country = USA
    /\ LET T == ConvDf(ScenarioRows, 1)
       IN Len(T) = 1 /\ T[1].Country = USA /\ T[1].val = 409

C6_Witness ==
    \E s \in Sessions :
        /\ "conv" \in view[s].done
        /\ view[s].conv # <<>>
        /\ Qualifying(dff(s).rows) # CountriesOf(dff(s).rows)
        /\ \E i \in DOMAIN view[s].conv :
              (1000 * view[s].conv[i].Golds) % view[s].conv[i].Medals # 0

\* C7: the filtered table holds exactly the rows of the canonical table with
\* yearMin <= Year <= yearMax, in their order, and filtering it again with the
\* same bounds changes nothing.
C7_YearFilter ==
    \A s \in Sessions :
        pc[s] = "heatmap" =>
            LET lo == params[s].year_range[1]
                hi == params[s].year_range[2]
                d == dff(s).rows
            IN /\ \A i \in DOMAIN df.rows :
                     (df.rows[i] \in Range(d))
                         <=> (lo <= df.rows[i].cell.Year.n /\ df.rows[i].cell.Year.n <= hi)
               /\ Range(d) \subseteq Range(df.rows)
               /\ \A i, k \in DOMAIN d : i < k => d[i].idx < d[k].idx
               /\ FilterByYear(d, lo, hi) = d

C7_Witness ==
    \E s \in Sessions :
        /\ pc[s] = "heatmap"
        /\ dff(s).rows # <<>>
        /\ Len(dff(s).rows) < Len(df.rows)
        /\ \E i \in DOMAIN df.rows : df.rows[i].cell.Year.n > params[s].year_range[2]
        /\ \E i \in DOMAIN df.rows : df.rows[i].cell.Year.n = params[s].year_range[2]

\* C9: once loaded, the canonical table is changed by no step of any
\* session, and it never gets the Decade column.
C9_CanonicalReadOnly ==
    [][loaded = "ok" => (heap["df"]' = heap["df"] /\ "Decade" \notin heap["df"]'.columns)]_vars

C9_Witness ==
    /\ "Decade" \in heap["s1"].columns
    /\ heap["s1"].rows # <<>>
    /\ pc["s2"] = "heatmap"
    /\ params["s1"].year_range # params["s2"].year_range

\* C10: the composition view has one row for each of the min(n, distinct
\* countries) countries with the largest total Medals and for no other, each
\* row with the country's summed Golds, Silvers and Bronzes, ordered by
\* Golds descending.
C10_Composition ==
    \A s \in Sessions :
        "comp" \in view[s].done =>
            LET T == view[s].comp
                rows == dff(s).rows
            IN /\ Len(T) = Min(params[s].top_n, Cardinality(CountriesOf(rows)))
               /\ Cardinality(Index(T)) = Len(T)
               /\ Index(T) \subseteq CountriesOf(rows)
               /\ \A c \in CountriesOf(rows) \ Index(T) :
                     \A i \in DOMAIN T :
                         TotalOf(rows, c, "Medals") <= TotalOf(rows, T[i].Country, "Medals")
               /\ \A i \in DOMAIN T :
                     /\ T[i].Golds = TotalOf(rows, T[i].Country, "Golds")
                     /\ T[i].Silvers = TotalOf(rows, T[i].Country, "Silvers")
                     /\ T[i].Bronzes = TotalOf(rows, T[i].Country, "Bronzes")
               /\ \A i, j \in DOMAIN T : i < j => T[i].Golds >= T[j].Golds

C10_Witness ==
    \E s \in Sessions :
        /\ "comp" \in view[s].done
        /\ Len(view[s].comp) = params[s].top_n
        /\ params[s].top_n < Cardinality(CountriesOf(dff(s).rows))
        /\ \E i, j \in DOMAIN view[s].comp :
              /\ view[s].comp[i].Golds > view[s].comp[j].Golds
              /\ TotalOf(dff(s).rows, view[s].comp[i].Country, "Medals")
                    < TotalOf(dff(s).rows, view[s].comp[j].Country, "Medals")

\* C11: the rows of the decade heatmap are the min(n, distinct countries)
\* countries with the largest total Medals over the filtered table, n being
\* the top-N parameter of the run, each once, no country left out having a
\* larger total than one listed, and they are listed by total Medals
\* descending -- in both dashboards.
C11_HeatmapRows ==
    \A s \in Sessions :
        "heat" \in view[s].done =>
            LET idx == view[s].heat.index
                rows == dff(s).rows
            IN /\ Len(idx) = Min(params[s].top_n, Cardinality(CountriesOf(rows)))
               /\ Cardinality(Range(idx)) = Len(idx)
               /\ Range(idx) \subseteq CountriesOf(rows)
               /\ \A c \in CountriesOf(rows) \ Range(idx) :
                     \A i \in DOMAIN idx :
                         TotalOf(rows, c, "Medals") <= TotalOf(rows, idx[i], "Medals")
               /\ \A i, j \in DOMAIN idx :
                     i < j => TotalOf(rows, idx[i], "Medals") >= TotalOf(rows, idx[j], "Medals")

\* C12: when the canonical table is not empty and the bounds of the year
\* range are Years of it with lower <= upper, a run that has passed the KPI
\* cards has a non-empty filtered table, has raised nothing, and shows as
\* leader a country of the filtered table with the largest total Medals.
C12_FilteredNeverEmpty ==
    \A s \in Sessions :
        ( /\ pc[s] \in {"heatmap", "idle"}
          /\ df.rows # <<>>
          /\ params[s].year_range[1] \in Range(YearsOf(df.rows))
          /\ params[s].year_range[2] \in Range(YearsOf(df.rows))
          /\ params[s].year_range[1] <= params[s].year_range[2] ) =>
            /\ dff(s).rows # <<>>
            /\ view[s].error = ""
            /\ "kpi" \in view[s].done
            /\ view[s].kpi.leader \in CountriesOf(dff(s).rows)
            /\ \A c \in CountriesOf(dff(s).rows) :
                  TotalOf(dff(s).rows, c, "Medals")
                      <= TotalOf(dff(s).rows, view[s].kpi.leader, "Medals")

C12_Witness ==
    \E s \in Sessions :
        /\ pc[s] = "idle"
        /\ {"kpi", "heat"} \subseteq view[s].done
        /\ params[s].year_range[1] = params[s].year_range[2]
        /\ params[s].year_range[1] # YearsOf(df.rows)[1]
        /\ params[s].year_range[2] # YearsOf(df.rows)[Len(YearsOf(df.rows))]
        /\ Len(dff(s).rows) < Len(df.rows)
        /\ view[s].kpi.leader # <<>>

====
